---- MODULE Spec2Model ----
(***************************************************************************)
(* Word selection of the Defindle word game.                               *)
(*                                                                         *)
(*   Spec     the frequency-corpus selector (server/enhancedWordService.ts)*)
(*            behind its HTTP routes (server/routes.ts) and the persisted  *)
(*            word history the smart route reads (server/storage.ts).      *)
(*   SpecSmart the smart route alone, over an unchanging history.          *)
(*   SpecApi  the API-backed selector (server/wordService.ts) serving      *)
(*            requests that overlap at the definition lookup.              *)
(*   SpecFetch fetchDefinitionFromAPI applied to dictionary responses.     *)
(*   SpecText cleanDefinition and categorizeWordDifficulty applied to      *)
(*            strings.                                                     *)
(*   SpecRange the routes that read the corpus by frequency rank.          *)
(*   SpecHistory the word-history routes, serving two devices.             *)
(*   SpecPrefs the preferences routes (server/storage.ts).                 *)
(*   SpecDevice the device id kept by the client (DeviceIdManager).        *)
(*   SpecTimed the sessions of the timed challenge (TimedChallenge).       *)
(***************************************************************************)
EXTENDS Integers, Sequences, FiniteSets, TLC

VARIABLES
    WORD_DATABASE,    \* enhancedWordService.ts:26  the loaded corpus, in file order
    usedWords,        \* enhancedWordService.ts:52  EnhancedWordService.usedWords
    userWordHistory,  \* storage.ts:139-155         rows of table user_word_history
    last,             \* the request served by the latest step and its response
    wsUsedWords,      \* wordService.ts:147  WordService.usedWords
    requests,         \* calls of WordService.getRandomWordWithDefinition in flight
    wsLast,           \* the latest completed call of the API-backed selector
    fetchCall,        \* a call of fetchDefinitionFromAPI: its response and result
    textCall,         \* calls of cleanDefinition or categorizeWordDifficulty on one string
    userPreferences,  \* storage.ts:171-212  rows of table user_preferences, by id
    patches,          \* calls of updateUserPreferences between their read and their write
    prefLast,         \* the latest completed write of preferences
    prefClock,        \* the time of day, in writes of preferences so far
    deviceIdManager,  \* DeviceIdManager.deviceId and the item it keeps in localStorage
    visit,            \* the page visit under way and the latest call of DeviceIdManager
    timedChallenge,   \* part_004:507-525  the state of the TimedChallenge component
    round             \* the round under way and the latest scoring of a correct guess

selectorVars == <<WORD_DATABASE, usedWords, userWordHistory, last>>
apiVars == <<wsUsedWords, requests, wsLast>>
vars == <<WORD_DATABASE, usedWords, userWordHistory, last, wsUsedWords, requests, wsLast, fetchCall, textCall,
          userPreferences, patches, prefLast, prefClock,
          deviceIdManager, visit, timedChallenge, round>>
prefVars == <<userPreferences, patches, prefLast, prefClock>>
clientVars == <<deviceIdManager, visit, timedChallenge, round>>

NULL == "null"

(***************************************************************************)
(* Bounds of the model.                                                    *)
(***************************************************************************)
\* Largest corpus the model loads.
MaxCorpus == 3
\* Largest corpus SpecRange loads.
MaxRankedCorpus == 2
\* Entries kept per tier by slice(0, 200), scaled to the model's corpus so
\* that a tier can hold more entries than its pool keeps.
SliceCap == 2
\* Frames a self-call may stack before the engine throws RangeError.
MaxCallStack == 2
\* Meanings in the first entry of a dictionary response.
MaxMeanings == 2

Min(a, b) == IF a < b THEN a ELSE b

(***************************************************************************)
(* The corpus.  Word texts are upper case and unique within a corpus       *)
(* (getWordByText looks a word up by word.toUpperCase()).                  *)
(***************************************************************************)
CorpusWords == <<"CAT", "ELEPHANT", "HOUSE", "WATER", "SCHOOL">>

DbDifficulties == {"common", "moderate", "expert"}

\* Strings a client may have posted to /api/word-history: any string passes
\* z.string(), upper case or not.
HistoryWords == {"CAT", "ELEPHANT", "cat"}

DeviceIds == {"d1"}

\* String.prototype.toUpperCase on the strings of the model.
toUpperCase(s) ==
    CASE s = "cat" -> "CAT"
      [] s = "the" -> "THE"
      [] s = "which" -> "WHICH"
      [] s = "house" -> "HOUSE"
      [] s = "nature" -> "NATURE"
      [] s = "elephant" -> "ELEPHANT"
      [] s = "a"   -> "A"
      [] s = "b"   -> "B"
      [] OTHER     -> s

\* The difficulty label the database file gives an entry of a frequency
\* rank: the file is written by the database builder, which buckets by rank
\* (1-2000 common, 2001-10000 moderate, above 10000 expert).
difficultyOfRank(rank) ==
    IF rank <= 2000 THEN "common"
    ELSE IF rank <= 10000 THEN "moderate"
    ELSE "expert"

\* An entry of the database file.
entry(word, rank) ==
    [word |-> word, frequency_rank |-> rank, difficulty |-> difficultyOfRank(rank)]

\* The corpora of at most size entries whose ranks are drawn from ranks.
CorporaOver(ranks, size) ==
    UNION { { [i \in 1..n |-> entry(CorpusWords[i], r[i])] : r \in [1..n -> ranks] } :
            n \in 0..Min(size, Len(CorpusWords)) }

\* Ranks of the entries Spec loads: one per tier.
TierRanks == {1500, 5000, 15000}

Corpora == CorporaOver(TierRanks, MaxCorpus)

getFallbackWordList ==
    << [word |-> "HOUSE", frequency_rank |-> 150, difficulty |-> "common"],
       [word |-> "WATER", frequency_rank |-> 95, difficulty |-> "common"],
       [word |-> "SCHOOL", frequency_rank |-> 360, difficulty |-> "common"] >>

\* Mutant of slice: the list is not cut.
slice_wholeList(s, n) == s

\* Array.prototype.slice(0, n)
slice(s, n) == SubSeq(s, 1, Min(n, Len(s)))

ofDifficulty(db, d) == SelectSeq(db, LAMBDA w : w.difficulty = d)

WORDS_BY_DIFFICULTY ==
    [easy   |-> slice(ofDifficulty(WORD_DATABASE, "common"), SliceCap),
     medium |-> slice(ofDifficulty(WORD_DATABASE, "moderate"), SliceCap),
     hard   |-> slice(ofDifficulty(WORD_DATABASE, "expert"), SliceCap)]

\* Mutant of mapDifficulty: the case of 'expert' is missing.
mapDifficulty_noExpert(dbDifficulty) ==
    CASE dbDifficulty = "common"   -> "easy"
      [] dbDifficulty = "moderate" -> "medium"
      [] OTHER                     -> "medium"

\* enhancedWordService.ts:143-150
mapDifficulty(dbDifficulty) ==
    CASE dbDifficulty = "common"   -> "easy"
      [] dbDifficulty = "moderate" -> "medium"
      [] dbDifficulty = "expert"   -> "hard"
      [] OTHER                     -> "medium"

\* Mutant of wordPool: 'hard' is served from the whole corpus.
wordPool_hardIsMixed(difficulty) ==
    CASE difficulty = "easy"   -> WORDS_BY_DIFFICULTY.easy
      [] difficulty = "medium" -> WORDS_BY_DIFFICULTY.medium
      [] OTHER                 -> WORD_DATABASE

\* The switch of getWordByDifficulty and of getSmartWordSelection: both send
\* 'mixed' and every unknown name to the whole corpus.
wordPool(difficulty) ==
    CASE difficulty = "easy"   -> WORDS_BY_DIFFICULTY.easy
      [] difficulty = "medium" -> WORDS_BY_DIFFICULTY.medium
      [] difficulty = "hard"   -> WORDS_BY_DIFFICULTY.hard
      [] OTHER                 -> WORD_DATABASE

Range(s) == {s[i] : i \in 1..Len(s)}
textsOf(pool) == {pool[i].word : i \in 1..Len(pool)}

(***************************************************************************)
(* Outcomes of a selection call: the Word returned (or null, or the        *)
(* RangeError of an unbounded self-call) with the seen set it leaves.      *)
(* exhausted tells that the call found every word of its pool excluded.    *)
(***************************************************************************)
\* Mutant of Returned: the word is not added to the seen set.
Returned_unmarked(w, used, exhausted) ==
    [kind |-> "word", word |-> w.word, difficulty |-> mapDifficulty(w.difficulty),
     used |-> used \ {w.word}, exhausted |-> exhausted]

Returned(w, used, exhausted) ==
    [kind |-> "word", word |-> w.word, difficulty |-> mapDifficulty(w.difficulty),
     used |-> used, exhausted |-> exhausted]

ReturnedNull(used) ==
    [kind |-> "null", word |-> NULL, difficulty |-> NULL, used |-> used, exhausted |-> TRUE]

Thrown(used) ==
    [kind |-> "RangeError", word |-> NULL, difficulty |-> NULL, used |-> used, exhausted |-> TRUE]

\* enhancedWordService.ts:77-95.  The self-call of line 82 is not awaited
\* before it runs: the frames stack until the engine gives up.
RECURSIVE getRandomWordWithDefinition(_, _)
getRandomWordWithDefinition(used, depth) ==
    LET availableWords == SelectSeq(WORD_DATABASE, LAMBDA w : w.word \notin used) IN
    IF depth > MaxCallStack THEN {Thrown(used)}
    ELSE IF Len(availableWords) = 0
         THEN getRandomWordWithDefinition({}, depth + 1)
         ELSE { Returned(availableWords[i], used \cup {availableWords[i].word}, depth > 0) :
                    i \in 1..Len(availableWords) }

\* Mutants of resetForDifficulty: a reset that frees nothing, and a reset
\* that clears the whole set.
resetForDifficulty_freesNothing(used, pool) == used
resetForDifficulty_clearsAll(used, pool) == {}

\* enhancedWordService.ts:124  wordPool.forEach(word => this.usedWords.delete(word.word))
resetForDifficulty(used, pool) == used \ textsOf(pool)

\* enhancedWordService.ts:100-138
RECURSIVE getWordByDifficulty(_, _, _)
getWordByDifficulty(used, difficulty, depth) ==
    LET pool == wordPool(difficulty)
        availableWords == SelectSeq(pool, LAMBDA w : w.word \notin used) IN
    IF depth > MaxCallStack THEN {Thrown(used)}
    ELSE IF Len(availableWords) = 0
         THEN getWordByDifficulty(resetForDifficulty(used, pool), difficulty, depth + 1)
         ELSE { Returned(availableWords[i], used \cup {availableWords[i].word}, depth > 0) :
                    i \in 1..Len(availableWords) }

\* Mutant of unseenWordsOf: the caller's history is not consulted.
unseenWordsOf_ignoresHistory(pool, seenWords, used) ==
    SelectSeq(pool, LAMBDA w : w.word \notin used)

\* enhancedWordService.ts:220-223
unseenWordsOf(pool, seenWords, used) ==
    SelectSeq(pool, LAMBDA w : toUpperCase(w.word) \notin Range(seenWords) /\ w.word \notin used)

\* Mutant of smartReset: line 229's clear() is missing.
smartReset_noClear(pool, seenWords, used) ==
    LET availableWords == SelectSeq(pool, LAMBDA w : w.word \notin used) IN
    IF Len(availableWords) = 0
    THEN {ReturnedNull(used)}
    ELSE { Returned(availableWords[i], used \cup {availableWords[i].word}, TRUE) :
               i \in 1..Len(availableWords) }

\* enhancedWordService.ts:226-247  the branch taken when nothing is unseen
smartReset(pool, seenWords, used) ==
    LET cleared == {}
        availableWords == SelectSeq(pool, LAMBDA w : w.word \notin cleared) IN
    IF Len(availableWords) = 0
    THEN {ReturnedNull(cleared)}
    ELSE { Returned(availableWords[i], cleared \cup {availableWords[i].word}, TRUE) :
               i \in 1..Len(availableWords) }

\* enhancedWordService.ts:201-260
getSmartWordSelection(used, seenWords, difficulty) ==
    LET pool == wordPool(difficulty)
        unseenWords == unseenWordsOf(pool, seenWords, used) IN
    IF Len(unseenWords) = 0
    THEN smartReset(pool, seenWords, used)
    ELSE { Returned(unseenWords[i], used \cup {unseenWords[i].word}, FALSE) :
               i \in 1..Len(unseenWords) }

\* Mutant of getWordsByFrequencyRange: the upper bound is exclusive.
getWordsByFrequencyRange_exclusiveMax(minRank, maxRank) ==
    LET matching == SelectSeq(WORD_DATABASE,
                              LAMBDA word : word.frequency_rank >= minRank
                                               /\ word.frequency_rank < maxRank)
    IN  [i \in 1..Len(matching) |->
            [word |-> matching[i].word, difficulty |-> mapDifficulty(matching[i].difficulty)]]

\* enhancedWordService.ts:265-275
getWordsByFrequencyRange(minRank, maxRank) ==
    LET matching == SelectSeq(WORD_DATABASE,
                              LAMBDA word : word.frequency_rank >= minRank
                                               /\ word.frequency_rank <= maxRank)
    IN  [i \in 1..Len(matching) |->
            [word |-> matching[i].word, difficulty |-> mapDifficulty(matching[i].difficulty)]]

\* Mutant of resetUsedWords: the set is left as it is.
resetUsedWords_keepsSet == usedWords

\* enhancedWordService.ts:194-196
resetUsedWords == {}

(***************************************************************************)
(* Storage (server/storage.ts).                                            *)
(***************************************************************************)
\* storage.ts:147-155  the distinct words of the device's rows, as an array
SetToSeq(S) ==
    CHOOSE s \in [1..Cardinality(S) -> S] : \A x \in S : \E i \in 1..Cardinality(S) : s[i] = x

getSeenWords(rows, deviceId) == SetToSeq({r.word : r \in {x \in rows : x.deviceId = deviceId}})

\* storage.ts:139-145
recordWordSeen(rows, history) == rows \cup {history}

\* Mutant of clearWordHistory: the where clause is missing.
clearWordHistory_noWhere(rows, deviceId) == {}

\* storage.ts:165-168
clearWordHistory(rows, deviceId) == {r \in rows : r.deviceId # deviceId}

(***************************************************************************)
(* Routes (server/routes.ts).                                              *)
(***************************************************************************)
DifficultyParams == {"easy", "medium", "hard", "mixed", "extreme"}
ValidDifficulties == {"easy", "medium", "hard", "mixed"}

\* The status a route answers with for an outcome of the service call.
statusOf(out) ==
    CASE out.kind = "word"       -> 200
      [] out.kind = "null"       -> 404
      [] out.kind = "RangeError" -> 500

\* failure names what made a route answer 500: the RangeError of a service
\* call, or a rejected storage query.  words, minRank and maxRank belong to
\* the frequency-range route.
Response(op, deviceId, difficulty, seenWords, usedBefore, out) ==
    [op |-> op, deviceId |-> deviceId, difficulty |-> difficulty,
     seenWords |-> seenWords, usedBefore |-> usedBefore,
     status |-> statusOf(out), word |-> out.word, wordDifficulty |-> out.difficulty,
     exhausted |-> out.exhausted,
     failure |-> IF out.kind = "RangeError" THEN "RangeError" ELSE "none",
     words |-> <<>>, minRank |-> 0, maxRank |-> 0]

NoResponse(op) ==
    [op |-> op, deviceId |-> NULL, difficulty |-> NULL, seenWords |-> <<>>, usedBefore |-> {},
     status |-> 200, word |-> NULL, wordDifficulty |-> NULL, exhausted |-> FALSE,
     failure |-> "none", words |-> <<>>, minRank |-> 0, maxRank |-> 0]


(***************************************************************************)
(* Definition text is a sequence of characters.                            *)
(***************************************************************************)
Pad(n) == [i \in 1..n |-> "a"]

Whitespace == {" ", "\t", "\n"}

\* wordService.ts:196  .replace(/\([^)]*\)/g, '')
\* A character goes exactly when an opening parenthesis at or before it
\* reaches it with no closing one in between, and a closing one follows.
stripParentheticals(s) ==
    LET gone(i) == \E o \in 1..i :
                      /\ s[o] = "("
                      /\ \A k \in (o + 1)..(i - 1) : s[k] # ")"
                      /\ \E j \in i..Len(s) : j > o /\ s[j] = ")"
        at == [i \in 1..Len(s) |-> <<i, s[i]>>]
        kept == SelectSeq(at, LAMBDA p : ~gone(p[1]))
    IN  [i \in 1..Len(kept) |-> kept[i][2]]

\* wordService.ts:198  .replace(/\s+/g, ' ')
collapseWhitespace(s) ==
    LET at == [i \in 1..Len(s) |-> <<i, IF s[i] \in Whitespace THEN " " ELSE s[i]>>]
        kept == SelectSeq(at, LAMBDA p : \/ s[p[1]] \notin Whitespace
                                         \/ p[1] = 1
                                         \/ s[p[1] - 1] \notin Whitespace)
    IN  [i \in 1..Len(kept) |-> kept[i][2]]

\* wordService.ts:200  .replace(/^./, str => str.toUpperCase())
capitalizeFirst(s) ==
    IF Len(s) = 0 \/ s[1] = "\n" THEN s ELSE [s EXCEPT ![1] = toUpperCase(s[1])]

\* wordService.ts:202  .replace(/\.?$/, '.')
ensurePeriod(s) == IF Len(s) > 0 /\ s[Len(s)] = "." THEN s ELSE Append(s, ".")

\* wordService.ts:203  .trim()
trim(s) ==
    LET solid == {i \in 1..Len(s) : s[i] \notin Whitespace} IN
    IF solid = {} THEN <<>>
    ELSE SubSeq(s, CHOOSE i \in solid : \A j \in solid : i <= j,
                   CHOOSE i \in solid : \A j \in solid : i >= j)

\* wordService.ts:193-204
cleanDefinition(definition) ==
    trim(ensurePeriod(capitalizeFirst(collapseWhitespace(stripParentheticals(definition)))))

\* Longest string handed to cleanDefinition in SpecText.
MaxDefinitionLen == 4

\* Characters of those strings: a letter, a blank, the parentheses and the
\* period.
DefinitionAlphabet == {"a", " ", "(", ")", "."}

DefinitionInputs == UNION {[1..n -> DefinitionAlphabet] : n \in 0..MaxDefinitionLen}

(***************************************************************************)
(* The length and common-word classifier (server/wordService.ts).          *)
(***************************************************************************)
\* wordService.ts:15
commonWords ==
    {"THE", "AND", "FOR", "ARE", "BUT", "NOT", "YOU", "ALL", "CAN", "HER", "WAS", "ONE", "OUR",
     "HAD", "BY", "WORD", "WHAT", "SAID", "EACH", "WHICH", "DO", "HOW", "THEIR", "IF", "WILL",
     "UP", "OTHER", "ABOUT", "OUT", "MANY", "THEN", "THEM", "THESE", "SO", "SOME", "WOULD",
     "MAKE", "LIKE", "INTO", "HIM", "HAS", "TWO", "MORE", "GO", "NO", "WAY", "COULD", "MY",
     "THAN", "FIRST", "BEEN", "CALL", "WHO", "OIL", "ITS", "NOW", "FIND", "LONG", "DOWN", "DAY",
     "DID", "GET", "COME", "MADE", "MAY", "PART"}

\* Mutant of categorizeWordDifficulty: the length tests are strict.
categorizeWordDifficulty_strictLengths(word) ==
    IF toUpperCase(word) \in commonWords \/ Len(word) < 5 THEN "easy"
    ELSE IF Len(word) < 8 THEN "medium"
    ELSE "hard"

\* wordService.ts:13-24
categorizeWordDifficulty(word) ==
    IF toUpperCase(word) \in commonWords \/ Len(word) <= 5 THEN "easy"
    ELSE IF Len(word) <= 8 THEN "medium"
    ELSE "hard"

\* Words handed to the classifier, of 0 to 11 characters, in either case.
ClassifierWords ==
    {"", "GO", "the", "WHICH", "which", "HOUSE", "house", "NATURE", "nature", "ANCIENT",
     "ELEPHANT", "elephant", "SATELLITE", "WANDERLUST", "MAGNIFICENT"}

NoTextCall ==
    [kind |-> "none", definition |-> <<>>, word |-> NULL, calls |-> 0,
     cleaned |-> <<>>, recleaned |-> <<>>, difficulty |-> NULL]

(***************************************************************************)
(* User preferences (server/storage.ts, server/routes.ts).  A row of       *)
(* user_preferences is a record; the table is the sequence of its rows in  *)
(* the order of their serial ids.  Times are counted in writes.            *)
(***************************************************************************)
\* Writes of preferences a behaviour of SpecPrefs makes.
MaxPrefWrites == 2

PrefDevices == {"d1", "d2"}

\* The userId query parameter and body field: absent (null) or a user.
PrefUserIds == {NULL, "u1"}

\* Bodies of PATCH /api/preferences/:deviceId: the fields present.
PreferenceUpdates ==
    { << >>,
      [soundEnabled |-> 0],
      [dailyWordGoal |-> 0],
      [dailyWordGoal |-> 5],
      [preferredDifficulty |-> "easy"],
      [hintsEnabled |-> 0, vocabulary_level |-> "advanced"] }

Has(updates, field) == field \in DOMAIN updates

\* storage.ts:171-177  the rows of the device; the query has no ORDER BY
\* and the code takes the first row the database sends.
getUserPreferences(table, deviceId) == {r \in Range(table) : r.deviceId = deviceId}

\* storage.ts:179-185  insert ... returning
saveUserPreferences(table, preferences) ==
    Append(table, [id |-> Len(table) + 1] @@ preferences)

\* An absent row, and a row that was read.
NoRow == [found |-> FALSE, row |-> << >>]
Found(r) == [found |-> TRUE, row |-> r]

\* storage.ts:190-200  the record updateUserPreferences builds.  || passes
\* over '' and 0 as well as over an absent field; ?? passes over an absent
\* field only.
updatedPreferences(existing, deviceId, updates, userId, now) ==
    [userId |-> userId,
     deviceId |-> deviceId,
     preferredDifficulty |->
        IF Has(updates, "preferredDifficulty") /\ updates.preferredDifficulty # ""
        THEN updates.preferredDifficulty
        ELSE IF existing.found /\ existing.row.preferredDifficulty # ""
             THEN existing.row.preferredDifficulty ELSE "mixed",
     soundEnabled |->
        IF Has(updates, "soundEnabled") THEN updates.soundEnabled
        ELSE IF existing.found THEN existing.row.soundEnabled ELSE 1,
     hintsEnabled |->
        IF Has(updates, "hintsEnabled") THEN updates.hintsEnabled
        ELSE IF existing.found THEN existing.row.hintsEnabled ELSE 1,
     dailyWordGoal |->
        IF Has(updates, "dailyWordGoal") /\ updates.dailyWordGoal # 0
        THEN updates.dailyWordGoal
        ELSE IF existing.found /\ existing.row.dailyWordGoal # 0
             THEN existing.row.dailyWordGoal ELSE 10,
     vocabulary_level |->
        IF Has(updates, "vocabulary_level") /\ updates.vocabulary_level # ""
        THEN updates.vocabulary_level
        ELSE IF existing.found /\ existing.row.vocabulary_level # ""
             THEN existing.row.vocabulary_level ELSE "intermediate",
     createdAt |-> IF existing.found THEN existing.row.createdAt ELSE now,
     updatedAt |-> now]

\* storage.ts:202-208  update ... set(updated) where id = existing.id
setRow(table, id, updated) ==
    [i \in 1..Len(table) |-> IF table[i].id = id THEN [id |-> id] @@ updated ELSE table[i]]

\* Bodies of POST /api/preferences: the columns left out take their
\* defaults (schema.ts:117-128).
PreferenceBodies(now) ==
    {[userId |-> u, deviceId |-> d, preferredDifficulty |-> "mixed", soundEnabled |-> 1,
      hintsEnabled |-> 1, dailyWordGoal |-> 10, vocabulary_level |-> "intermediate",
      createdAt |-> now, updatedAt |-> now] : u \in PrefUserIds, d \in PrefDevices}

PatchRequests == {1, 2}

NoPatch == [pc |-> "idle", deviceId |-> NULL, updates |-> << >>, userId |-> NULL, existing |-> NoRow]

NoPrefWrite ==
    [op |-> "none", deviceId |-> NULL, updates |-> << >>, userId |-> NULL,
     existing |-> NoRow, rowsBefore |-> 0, row |-> << >>]

InitPrefsIdle ==
    /\ userPreferences = << >>
    /\ patches = [p \in PatchRequests |-> NoPatch]
    /\ prefLast = NoPrefWrite
    /\ prefClock = 0

(***************************************************************************)
(* Client: DeviceIdManager and the TimedChallenge component.               *)
(***************************************************************************)
MaxDeviceIds == 5
MaxRounds == 1
MaxHints == 2

\* A device id is a positive number; NoId stands for null and for a missing
\* item of localStorage.
NoId == 0

\* routes.ts:375-412  the id holds Date.now() and Math.random(): it differs
\* from every id generated before.
generateDeviceId(manager) == manager.generated + 1

\* routes.ts:354-370
getDeviceId(manager) ==
    IF manager.deviceId # NoId
    THEN [manager |-> manager, id |-> manager.deviceId]
    ELSE IF manager.stored # NoId
         THEN [manager |-> [manager EXCEPT !.deviceId = manager.stored], id |-> manager.stored]
         ELSE LET id == generateDeviceId(manager) IN
              [manager |-> [deviceId |-> id, stored |-> id, generated |-> id], id |-> id]

\* routes.ts:417-421
resetDeviceId(manager) ==
    getDeviceId([manager EXCEPT !.stored = NoId, !.deviceId = NoId])

\* routes.ts:426-428
isReturningUser(manager) == manager.stored # NoId

\* existedBefore tells that an id was stored when the page was opened, and
\* previousId is the id the call before the latest one returned, NoId after
\* a reset.
NoVisit ==
    [op |-> "none", id |-> NoId, previousId |-> NoId, isReturningUser |-> FALSE,
     existedBefore |-> FALSE]

\* part_004:710-717
getWordPoints(difficulty) ==
    CASE difficulty = "easy"   -> 50
      [] difficulty = "medium" -> 100
      [] difficulty = "hard"   -> 150
      [] OTHER                 -> 100

\* part_004:599  const timeLimit = 60
timeLimit == 60

Max(a, b) == IF a >= b THEN a ELSE b

\* part_004:657-661
roundScore(difficulty, timeRemaining, hintsUsed) ==
    LET basePoints == getWordPoints(IF difficulty = NULL THEN "medium" ELSE difficulty)
        timeBonus == timeRemaining \div 10
        hintPenalty == hintsUsed * 5 IN
    Max(basePoints + timeBonus - hintPenalty, 10)

\* Words GET /api/words/enhanced/random may answer with, one of them without
\* a difficulty.
ChallengeWords ==
    {[word |-> "GO", difficulty |-> "easy"],
     [word |-> "OX", difficulty |-> "hard"],
     [word |-> "I", difficulty |-> NULL]}

NoWord == [word |-> "", difficulty |-> NULL]

\* String.prototype.split('').filter(letter => letter !== ' ') on the words
\* of the model, which hold no space.
letters(word) == 1..Len(word)

\* part_004:507-525.  timers counts the pending timeouts of line 679 and
\* fetches the pending calls of fetchNewWord.
Setup ==
    [gameState |-> "setup", currentWord |-> NoWord, revealedIndices |-> {},
     score |-> 0, correctGuesses |-> 0, totalWords |-> 0, hintsUsed |-> 0, timeRemaining |-> 0,
     timers |-> 0, fetches |-> 0]

\* hints counts the hints used since the board was last cleared.
NoRound ==
    [op |-> "none", hints |-> 0, roundScore |-> 0, scoreBefore |-> 0,
     timeRemaining |-> 0, difficulty |-> NULL]

InitClientIdle ==
    /\ deviceIdManager = [deviceId |-> NoId, stored |-> NoId, generated |-> 0]
    /\ visit = NoVisit
    /\ timedChallenge = Setup
    /\ round = NoRound

(***************************************************************************)
(* Definition Lookup.  A value a call yields is tagged: a definition, null *)
(* or a thrown error.                                                      *)
(***************************************************************************)
Some(text) == [tag |-> "some", value |-> text]
Null == [tag |-> "null", value |-> <<>>]
Throw == [tag |-> "throw", value |-> <<>>]

\* Raw definition strings the dictionary may send.
RawDefinitions ==
    { <<>>, Pad(18), Pad(19), Pad(20), Pad(198), Pad(199),
      <<"(", "b", ")", " ">> \o Pad(19),
      Pad(10) \o <<" ", " ", "(", "b", ")">> \o Pad(10) \o <<".">> }

\* definitions[0] of a meaning: an object with a definition string, or one
\* without (its .definition is undefined).
FirstDefinitions ==
    {[hasText |-> TRUE, text |-> d] : d \in RawDefinitions}
        \cup {[hasText |-> FALSE, text |-> <<>>]}

\* A meaning: its definitions array absent, empty, or led by a definition.
Meanings ==
    {[hasDefinitions |-> FALSE, definitions |-> <<>>], [hasDefinitions |-> TRUE, definitions |-> <<>>]}
        \cup {[hasDefinitions |-> TRUE, definitions |-> <<d>>] : d \in FirstDefinitions}

MeaningLists == UNION {[1..n -> Meanings] : n \in 0..MaxMeanings}

\* What the fetch of line 160 and the json() of line 166 can come to.
Responses ==
    {[kind |-> "networkError", ok |-> FALSE, data |-> <<>>],
     [kind |-> "http", ok |-> FALSE, data |-> <<>>],
     [kind |-> "badJson", ok |-> TRUE, data |-> <<>>],
     [kind |-> "json", ok |-> TRUE, data |-> <<>>],
     [kind |-> "json", ok |-> TRUE, data |-> <<[hasMeanings |-> FALSE, meanings |-> <<>>]>>]}
        \cup {[kind |-> "json", ok |-> TRUE, data |-> <<[hasMeanings |-> TRUE, meanings |-> ms]>>] :
                ms \in MeaningLists}

\* Mutant of withinBand: the upper limit is missing.
withinBand_noUpperLimit(length) == length > 20

\* wordService.ts:179
withinBand(length) == length > 20 /\ length < 200

\* wordService.ts:172-183  the loop over the meanings, from meaning i on
RECURSIVE firstUsableDefinition(_, _)
firstUsableDefinition(meanings, i) ==
    IF i > Len(meanings) THEN Null
    ELSE IF meanings[i].hasDefinitions /\ Len(meanings[i].definitions) > 0
         THEN IF ~meanings[i].definitions[1].hasText
              THEN Throw    \* TypeError: undefined has no replace
              ELSE LET cleaned == cleanDefinition(meanings[i].definitions[1].text) IN
                   IF withinBand(Len(cleaned)) THEN Some(cleaned)
                   ELSE firstUsableDefinition(meanings, i + 1)
         ELSE firstUsableDefinition(meanings, i + 1)

\* wordService.ts:160-186  the body of the try block
fetchTry(word, response) ==
    IF response.kind = "networkError" THEN Throw
    ELSE IF ~response.ok THEN Null
    ELSE IF response.kind = "badJson" THEN Throw
    ELSE IF /\ Len(response.data) > 0
            /\ response.data[1].hasMeanings
            /\ Len(response.data[1].meanings) > 0
         THEN firstUsableDefinition(response.data[1].meanings, 1)
         ELSE Null

\* Mutant of fetchDefinitionFromAPI: no catch block.
fetchDefinitionFromAPI_noCatch(word, response) == fetchTry(word, response)

\* wordService.ts:158-191
fetchDefinitionFromAPI(word, response) ==
    LET result == fetchTry(word, response) IN
    IF result.tag = "throw" THEN Null ELSE result

(***************************************************************************)
(* The API-backed selector (server/wordService.ts).  The word lists are    *)
(* cut down to a few words each, keeping the overlaps of the real lists:   *)
(* the fallback words are curated words, and the generic list shares words *)
(* with the curated list and with the dynamic pools.                       *)
(***************************************************************************)
CURATED_WORDS == <<"HOUSE", "NATURE", "MAGNIFICENT">>
DYNAMIC_WORD_POOLS == [animals |-> <<"ELEPHANT">>, instruments |-> <<"PIANO">>]
randomWords == <<"ANCIENT", "ELEPHANT", "NATURE">>

\* wordService.ts:285-298  the inline definition of MAGNIFICENT
MAGNIFICENT_DEF ==
    <<
        "E", "x", "t", "r", "e", "m", "e", "l", "y", " ", "b", "e", "a", "u", "t", "i", "f", "u", "l", ",",
        " ", "e", "l", "a", "b", "o", "r", "a", "t", "e", ",", " ", "o", "r", " ", "i", "m", "p", "r", "e",
        "s", "s", "i", "v", "e", ";", " ", "i", "n", "s", "p", "i", "r", "i", "n", "g", " ", "g", "r", "e",
        "a", "t", " ", "a", "d", "m", "i", "r", "a", "t", "i", "o", "n", " ", "o", "r", " ", "a", "w", "e",
        "." >>

\* wordService.ts:285-298  the inline definition of SERENDIPITY
SERENDIPITY_DEF ==
    <<
        "T", "h", "e", " ", "o", "c", "c", "u", "r", "r", "e", "n", "c", "e", " ", "a", "n", "d", " ", "d",
        "e", "v", "e", "l", "o", "p", "m", "e", "n", "t", " ", "o", "f", " ", "e", "v", "e", "n", "t", "s",
        " ", "b", "y", " ", "c", "h", "a", "n", "c", "e", " ", "i", "n", " ", "a", " ", "h", "a", "p", "p",
        "y", " ", "o", "r", " ", "b", "e", "n", "e", "f", "i", "c", "i", "a", "l", " ", "w", "a", "y", ";",
        " ", "a", " ", "p", "l", "e", "a", "s", "a", "n", "t", " ", "s", "u", "r", "p", "r", "i", "s", "e",
        "." >>

\* wordService.ts:285-298  the inline definition of WANDERLUST
WANDERLUST_DEF ==
    <<
        "A", " ", "s", "t", "r", "o", "n", "g", " ", "d", "e", "s", "i", "r", "e", " ", "t", "o", " ", "t",
        "r", "a", "v", "e", "l", " ", "a", "n", "d", " ", "e", "x", "p", "l", "o", "r", "e", " ", "t", "h",
        "e", " ", "w", "o", "r", "l", "d", ";", " ", "a", "n", " ", "i", "r", "r", "e", "s", "i", "s", "t",
        "i", "b", "l", "e", " ", "u", "r", "g", "e", " ", "t", "o", " ", "w", "a", "n", "d", "e", "r", " ",
        "a", "n", "d", " ", "d", "i", "s", "c", "o", "v", "e", "r", " ", "n", "e", "w", " ", "p", "l", "a",
        "c", "e", "s", "." >>

fallbackWords ==
    << [word |-> "MAGNIFICENT", definition |-> MAGNIFICENT_DEF],
       [word |-> "SERENDIPITY", definition |-> SERENDIPITY_DEF],
       [word |-> "WANDERLUST", definition |-> WANDERLUST_DEF] >>

Requests == {1, 2}

\* Outcome of choosing a candidate: the word, the tiers consulted in order,
\* and the used set the choice leaves.
Candidate(word, consulted, used, cleared) ==
    [wordToTry |-> word, consulted |-> consulted, used |-> used, cleared |-> cleared]

\* wordService.ts:241-249
getCuratedWord(used) ==
    LET availableWords == SelectSeq(CURATED_WORDS, LAMBDA w : w \notin used) IN
    IF Len(availableWords) = 0 THEN {NULL} ELSE Range(availableWords)

\* wordService.ts:251-261
getDynamicWord(used) ==
    LET allDynamicWords == DYNAMIC_WORD_POOLS.animals \o DYNAMIC_WORD_POOLS.instruments
        availableDynamicWords == SelectSeq(allDynamicWords, LAMBDA w : w \notin used) IN
    IF Len(availableDynamicWords) = 0 THEN {NULL} ELSE Range(availableDynamicWords)

\* Mutant of getRandomDictionaryWord: the used set is cleared on every call
\* that reaches the generic list.
getRandomDictionaryWord_alwaysClears(used) ==
    LET availableRandomWords == SelectSeq(randomWords, LAMBDA w : w \notin used) IN
    IF Len(availableRandomWords) = 0
    THEN {[word |-> w, used |-> {}, cleared |-> TRUE] : w \in Range(randomWords)}
    ELSE {[word |-> w, used |-> {}, cleared |-> TRUE] : w \in Range(availableRandomWords)}

\* wordService.ts:263-282  the word chosen, with the used set it leaves
getRandomDictionaryWord(used) ==
    LET availableRandomWords == SelectSeq(randomWords, LAMBDA w : w \notin used) IN
    IF Len(availableRandomWords) = 0
    THEN {[word |-> w, used |-> {}, cleared |-> TRUE] : w \in Range(randomWords)}
    ELSE {[word |-> w, used |-> used, cleared |-> FALSE] : w \in Range(availableRandomWords)}

\* wordService.ts:207-218  No request can run between these awaits: each
\* awaited call has returned by the time it is awaited, so the chain
\* continues in the microtasks of the task that started it.
chooseCandidate(used) ==
    LET curated == getCuratedWord(used)
        dynamic == getDynamicWord(used) IN
    IF curated # {NULL}
    THEN {Candidate(w, <<"curated">>, used, FALSE) : w \in curated}
    ELSE IF dynamic # {NULL}
         THEN {Candidate(w, <<"curated", "dynamic">>, used, FALSE) : w \in dynamic}
         ELSE {Candidate(c.word, <<"curated", "dynamic", "dictionary">>, c.used, c.cleared) :
                   c \in getRandomDictionaryWord(used)}

\* wordService.ts:284-307
getFallbackWord ==
    {[kind |-> "word", source |-> "fallback", word |-> fallbackWords[i].word,
      definition |-> Some(fallbackWords[i].definition), used |-> {}] : i \in 1..Len(fallbackWords)}

\* Mutants of complete: a failed lookup answered with null, and the
\* hardcoded words served whatever the lookup gave.
complete_nullOnFailure(wordToTry, definition) ==
    IF definition.tag = "throw"
    THEN {[kind |-> "error", source |-> "api", word |-> NULL, definition |-> Null, used |-> {}]}
    ELSE IF definition.tag = "some"
         THEN {[kind |-> "word", source |-> "api", word |-> toUpperCase(wordToTry),
                definition |-> definition, used |-> {wordToTry}]}
         ELSE {[kind |-> "null", source |-> "api", word |-> NULL, definition |-> Null, used |-> {}]}

complete_alwaysFallback(wordToTry, definition) == getFallbackWord

\* Mutant of complete: the test of line 224 is missing.
complete_returnsCandidate(wordToTry, definition) ==
    {[kind |-> "word", source |-> "api", word |-> toUpperCase(wordToTry),
      definition |-> definition, used |-> {wordToTry}]}

\* Mutant of complete: a looked-up word is returned without being added to
\* the used set.
complete_neverMarks(wordToTry, definition) ==
    IF definition.tag = "throw"
    THEN {[kind |-> "error", source |-> "api", word |-> NULL, definition |-> Null, used |-> {}]}
    ELSE IF definition.tag = "some"
         THEN {[kind |-> "word", source |-> "api", word |-> toUpperCase(wordToTry),
                definition |-> definition, used |-> {}]}
         ELSE getFallbackWord

\* wordService.ts:220-238  what the call returns once the lookup has
\* settled, with the words it adds to the used set.  An error thrown by the
\* lookup would reject the call.
complete(wordToTry, definition) ==
    IF definition.tag = "throw"
    THEN {[kind |-> "error", source |-> "api", word |-> NULL, definition |-> Null, used |-> {}]}
    ELSE IF definition.tag = "some"
         THEN {[kind |-> "word", source |-> "api", word |-> toUpperCase(wordToTry),
                definition |-> definition, used |-> {wordToTry}]}
         ELSE getFallbackWord

\* Responses the lookups of SpecApi receive: a network error, a non-success
\* status, an empty array, and definitions that clean to 21, 20, 199 and
\* 201 characters.
jsonWith(definition) ==
    [kind |-> "json", ok |-> TRUE,
     data |-> <<[hasMeanings |-> TRUE,
                 meanings |-> <<[hasDefinitions |-> TRUE,
                                 definitions |-> <<[hasText |-> TRUE, text |-> definition]>>]>>]>>]

ApiResponses ==
    {[kind |-> "networkError", ok |-> FALSE, data |-> <<>>],
     [kind |-> "http", ok |-> FALSE, data |-> <<>>],
     [kind |-> "json", ok |-> TRUE, data |-> <<>>],
     jsonWith(Pad(20)),
     jsonWith(Pad(19)),
     jsonWith(Pad(198)),
     jsonWith(Pad(200))}

\* Every word a call may choose as its candidate.
CandidateWords ==
    Range(CURATED_WORDS) \cup Range(DYNAMIC_WORD_POOLS.animals)
        \cup Range(DYNAMIC_WORD_POOLS.instruments) \cup Range(randomWords)

\* wordService.ts:222  what the lookup of each candidate comes to for each
\* response, tabulated.
lookupOf ==
    [word \in CandidateWords, response \in ApiResponses |-> fetchDefinitionFromAPI(word, response)]

\* cleared tells that the call cleared usedWords when it chose its candidate.
Idle == [pc |-> "idle", wordToTry |-> NULL, consulted |-> <<>>, cleared |-> FALSE]

\* markedMeanwhile tells that the candidate was in usedWords when the lookup
\* settled.
NoCall ==
    [kind |-> "none", source |-> "none", word |-> NULL, definition |-> Null,
     wordToTry |-> NULL, consulted |-> <<>>, response |-> "none", lookup |-> "none",
     cleared |-> FALSE, markedMeanwhile |-> FALSE]

InitSelectorIdle ==
    /\ WORD_DATABASE = getFallbackWordList
    /\ usedWords = {}
    /\ userWordHistory = {}
    /\ last = NoResponse("init")

InitApiIdle ==
    /\ wsUsedWords = {}
    /\ requests = [r \in Requests |-> Idle]
    /\ wsLast = NoCall

InitFetchIdle ==
    /\ fetchCall = [word |-> NULL, response |-> NULL, result |-> Null, done |-> FALSE]
    /\ textCall = NoTextCall
    /\ InitPrefsIdle /\ InitClientIdle

\* wordService.ts:206-222  a call runs up to the fetch of line 160
StartRequest(r) ==
    /\ requests[r].pc = "idle"
    /\ \E c \in chooseCandidate(wsUsedWords) :
          /\ wsUsedWords' = c.used
          /\ requests' = [requests EXCEPT ![r] =
                             [pc |-> "fetch", wordToTry |-> c.wordToTry, consulted |-> c.consulted,
                              cleared |-> c.cleared]]
    /\ UNCHANGED <<wsLast, selectorVars, fetchCall, textCall, prefVars, clientVars>>

\* wordService.ts:160-238  the lookup settles and the call returns
FinishRequest(r) ==
    /\ requests[r].pc = "fetch"
    /\ \E response \in ApiResponses :
          LET definition == lookupOf[requests[r].wordToTry, response] IN
          \E out \in complete(requests[r].wordToTry, definition) :
              /\ wsUsedWords' = wsUsedWords \cup out.used
              /\ wsLast' = [kind |-> out.kind, source |-> out.source, word |-> out.word,
                            definition |-> out.definition,
                            wordToTry |-> requests[r].wordToTry,
                            consulted |-> requests[r].consulted,
                            response |-> response.kind,
                            lookup |-> definition.tag,
                            cleared |-> requests[r].cleared,
                            markedMeanwhile |-> requests[r].wordToTry \in wsUsedWords]
    /\ requests' = [requests EXCEPT ![r] = Idle]
    /\ UNCHANGED <<selectorVars, fetchCall, textCall, prefVars, clientVars>>

\* wordService.ts:341-343
ResetApiUsedWords ==
    /\ wsUsedWords' = {}
    /\ UNCHANGED <<requests, wsLast, selectorVars, fetchCall, textCall, prefVars, clientVars>>

InitApi == InitSelectorIdle /\ InitApiIdle /\ InitFetchIdle

NextApi ==
    \/ \E r \in Requests : StartRequest(r)
    \/ \E r \in Requests : FinishRequest(r)
    \/ ResetApiUsedWords

SpecApi == InitApi /\ [][NextApi]_vars

(***************************************************************************)
(* SpecFetch: fetchDefinitionFromAPI applied to every response.            *)
(***************************************************************************)
FetchWords == {"HOUSE", "XYZZY"}

InitFetch ==
    /\ InitSelectorIdle /\ InitApiIdle /\ InitPrefsIdle /\ InitClientIdle
    /\ textCall = NoTextCall
    /\ fetchCall \in {[word |-> w, response |-> r, result |-> Null, done |-> FALSE] :
                        w \in FetchWords, r \in Responses}

ApplyFetch ==
    /\ ~fetchCall.done
    /\ fetchCall' = [fetchCall EXCEPT !.result = fetchDefinitionFromAPI(fetchCall.word, fetchCall.response),
                                      !.done = TRUE]
    /\ UNCHANGED <<selectorVars, apiVars, textCall, prefVars, clientVars>>

NextFetch == ApplyFetch

SpecFetch == InitFetch /\ [][NextFetch]_vars

(***************************************************************************)
(* SpecText: cleanDefinition applied once and again to every string over   *)
(* the alphabet, and categorizeWordDifficulty applied to words.            *)
(***************************************************************************)
InitText ==
    /\ InitSelectorIdle /\ InitApiIdle /\ InitPrefsIdle /\ InitClientIdle
    /\ fetchCall = [word |-> NULL, response |-> NULL, result |-> Null, done |-> FALSE]
    /\ textCall \in {[NoTextCall EXCEPT !.kind = "clean", !.definition = d] : d \in DefinitionInputs}
                      \cup {[NoTextCall EXCEPT !.kind = "classify", !.word = w] : w \in ClassifierWords}

\* wordService.ts:193-204  cleanDefinition(definition)
ApplyClean ==
    /\ textCall.kind = "clean" /\ textCall.calls = 0
    /\ textCall' = [textCall EXCEPT !.cleaned = cleanDefinition(textCall.definition), !.calls = 1]
    /\ UNCHANGED <<selectorVars, apiVars, fetchCall, prefVars, clientVars>>

\* wordService.ts:193-204  cleanDefinition applied to its own result
ApplyCleanAgain ==
    /\ textCall.kind = "clean" /\ textCall.calls = 1
    /\ textCall' = [textCall EXCEPT !.recleaned = cleanDefinition(textCall.cleaned), !.calls = 2]
    /\ UNCHANGED <<selectorVars, apiVars, fetchCall, prefVars, clientVars>>

\* wordService.ts:13-24  categorizeWordDifficulty(word)
Classify ==
    /\ textCall.kind = "classify" /\ textCall.calls = 0
    /\ textCall' = [textCall EXCEPT !.difficulty = categorizeWordDifficulty(textCall.word), !.calls = 1]
    /\ UNCHANGED <<selectorVars, apiVars, fetchCall, prefVars, clientVars>>

NextText == ApplyClean \/ ApplyCleanAgain \/ Classify

SpecText == InitText /\ [][NextText]_vars

(***************************************************************************)
(* Spec: the routes of the frequency-corpus selector.                      *)
(***************************************************************************)
Init ==
    /\ WORD_DATABASE \in Corpora
    /\ usedWords = {}
    /\ userWordHistory = {}
    /\ last = NoResponse("init")
    /\ InitApiIdle /\ InitFetchIdle

\* routes.ts:48-60 and 216-228  GET /api/words/random, /api/words/enhanced/random
GetRandom ==
    \E out \in getRandomWordWithDefinition(usedWords, 0) :
        /\ usedWords' = out.used
        /\ last' = Response("random", NULL, "mixed", <<>>, usedWords, out)
        /\ UNCHANGED <<WORD_DATABASE, userWordHistory, apiVars, fetchCall, textCall, prefVars, clientVars>>

\* routes.ts:231-249  GET /api/words/enhanced/difficulty/:difficulty
GetByDifficulty ==
    \E difficulty \in DifficultyParams :
        IF difficulty \notin ValidDifficulties
        THEN /\ last' = [NoResponse("difficulty") EXCEPT !.difficulty = difficulty, !.status = 400,
                                                         !.usedBefore = usedWords]
             /\ UNCHANGED <<WORD_DATABASE, usedWords, userWordHistory, apiVars, fetchCall, textCall, prefVars, clientVars>>
        ELSE \E out \in getWordByDifficulty(usedWords, difficulty, 0) :
                /\ usedWords' = out.used
                /\ last' = Response("difficulty", NULL, difficulty, <<>>, usedWords, out)
                /\ UNCHANGED <<WORD_DATABASE, userWordHistory, apiVars, fetchCall, textCall, prefVars, clientVars>>

\* routes.ts:176-200  GET /api/words/smart/:deviceId
\* The query of storage.getSeenWords (line 182) either answers or rejects;
\* a rejection is caught at line 196.
GetSmart ==
    \E deviceId \in DeviceIds, difficulty \in DifficultyParams, queryAnswers \in BOOLEAN :
        IF ~queryAnswers
        THEN /\ last' = [NoResponse("smart") EXCEPT !.deviceId = deviceId, !.difficulty = difficulty,
                                                    !.usedBefore = usedWords, !.status = 500,
                                                    !.failure = "storage"]
             /\ UNCHANGED <<WORD_DATABASE, usedWords, userWordHistory, apiVars, fetchCall, textCall, prefVars, clientVars>>
        ELSE LET seenWords == getSeenWords(userWordHistory, deviceId) IN
             \E out \in getSmartWordSelection(usedWords, seenWords, difficulty) :
                /\ usedWords' = out.used
                /\ last' = Response("smart", deviceId, difficulty, seenWords, usedWords, out)
                /\ UNCHANGED <<WORD_DATABASE, userWordHistory, apiVars, fetchCall, textCall, prefVars, clientVars>>

\* routes.ts:87-96  POST /api/word-history
PostWordHistory ==
    \E deviceId \in DeviceIds, word \in HistoryWords :
        /\ userWordHistory' = recordWordSeen(userWordHistory, [deviceId |-> deviceId, word |-> word])
        /\ last' = NoResponse("recordWordSeen")
        /\ UNCHANGED <<WORD_DATABASE, usedWords, apiVars, fetchCall, textCall, prefVars, clientVars>>

\* routes.ts:316-325  POST /api/words/enhanced/reset
PostReset ==
    /\ usedWords' = resetUsedWords
    /\ last' = [NoResponse("reset") EXCEPT !.usedBefore = usedWords]
    /\ UNCHANGED <<WORD_DATABASE, userWordHistory, apiVars, fetchCall, textCall, prefVars, clientVars>>

Next ==
    \/ GetRandom
    \/ GetByDifficulty
    \/ GetSmart
    \/ PostWordHistory
    \/ PostReset

Spec == Init /\ [][Next]_vars

(***************************************************************************)
(* SpecRange: the routes that read the corpus by rank, over corpora whose  *)
(* ranks lie on and around the limits of the tiers and of the queries.     *)
(***************************************************************************)
RangeRanks == {1000, 1001, 1500, 2000, 2001, 5000, 10000, 10001, 15000}

\* Values of the minRank and maxRank parameters.
RankBounds == {1, 1000, 2001, 10000}

InitRange ==
    /\ WORD_DATABASE \in CorporaOver(RangeRanks, MaxRankedCorpus)
    /\ usedWords = {}
    /\ userWordHistory = {}
    /\ last = NoResponse("init")
    /\ InitApiIdle /\ InitFetchIdle

\* routes.ts:264-277  GET /api/words/enhanced/frequency-range
GetFrequencyRange ==
    \E minRank \in RankBounds, maxRank \in RankBounds :
        /\ last' = [NoResponse("frequencyRange") EXCEPT
                        !.words = getWordsByFrequencyRange(minRank, maxRank),
                        !.minRank = minRank, !.maxRank = maxRank, !.usedBefore = usedWords]
        /\ UNCHANGED <<WORD_DATABASE, usedWords, userWordHistory, apiVars, fetchCall, textCall, prefVars, clientVars>>

NextRange ==
    \/ GetRandom
    \/ GetByDifficulty
    \/ GetFrequencyRange
    \/ PostReset

SpecRange == InitRange /\ [][NextRange]_vars

(***************************************************************************)
(* SpecHistory: the word-history routes serving two devices, with smart    *)
(* selection reading the history, over the built-in corpus.                *)
(***************************************************************************)
HistoryDevices == {"d1", "d2"}

\* routes.ts:87-96  POST /api/word-history
RecordWordHistory ==
    \E deviceId \in HistoryDevices, word \in HistoryWords :
        /\ userWordHistory' = recordWordSeen(userWordHistory, [deviceId |-> deviceId, word |-> word])
        /\ last' = [NoResponse("recordWordSeen") EXCEPT !.deviceId = deviceId]
        /\ UNCHANGED <<WORD_DATABASE, usedWords, apiVars, fetchCall, textCall, prefVars, clientVars>>

\* routes.ts:98-108  GET /api/word-history/seen/:deviceId
GetWordHistorySeen ==
    \E deviceId \in HistoryDevices :
        /\ last' = [NoResponse("getSeenWords") EXCEPT
                        !.deviceId = deviceId,
                        !.seenWords = getSeenWords(userWordHistory, deviceId)]
        /\ UNCHANGED <<WORD_DATABASE, usedWords, userWordHistory, apiVars, fetchCall, textCall, prefVars, clientVars>>

\* routes.ts:126-136  DELETE /api/word-history/:deviceId
\* The response record keeps the words the device had before the request.
DeleteWordHistory ==
    \E deviceId \in HistoryDevices :
        /\ userWordHistory' = clearWordHistory(userWordHistory, deviceId)
        /\ last' = [NoResponse("clearWordHistory") EXCEPT
                        !.deviceId = deviceId,
                        !.seenWords = getSeenWords(userWordHistory, deviceId)]
        /\ UNCHANGED <<WORD_DATABASE, usedWords, apiVars, fetchCall, textCall, prefVars, clientVars>>

InitHistory == InitSelectorIdle /\ InitApiIdle /\ InitFetchIdle

NextHistory ==
    \/ RecordWordHistory
    \/ GetWordHistorySeen
    \/ DeleteWordHistory
    \/ GetSmart

SpecHistory == InitHistory /\ [][NextHistory]_vars

(***************************************************************************)
(* SpecPrefs: the routes that write preferences.  A PATCH is suspended     *)
(* between the read of line 188 and its write, so other requests run in    *)
(* between.                                                                *)
(***************************************************************************)
InitPrefs == InitSelectorIdle /\ InitApiIdle /\ InitFetchIdle

\* routes.ts:151-160  POST /api/preferences
PostPreferences ==
    /\ prefClock < MaxPrefWrites
    /\ \E preferences \in PreferenceBodies(prefClock + 1) :
          /\ userPreferences' = saveUserPreferences(userPreferences, preferences)
          /\ prefLast' = [op |-> "post", deviceId |-> preferences.deviceId, updates |-> << >>,
                          userId |-> preferences.userId,
                          existing |-> NoRow,
                          rowsBefore |-> Cardinality(getUserPreferences(userPreferences,
                                                                        preferences.deviceId)),
                          row |-> userPreferences'[Len(userPreferences')]]
    /\ prefClock' = prefClock + 1
    /\ UNCHANGED <<patches, selectorVars, apiVars, fetchCall, textCall, clientVars>>

\* routes.ts:162-166 and storage.ts:187-188  PATCH /api/preferences/:deviceId
\* up to the answer of getUserPreferences
StartPatch(p) ==
    /\ patches[p].pc = "idle"
    /\ prefClock + Cardinality({q \in PatchRequests : patches[q].pc = "read"}) < MaxPrefWrites
    /\ \E deviceId \in PrefDevices, updates \in PreferenceUpdates, userId \in PrefUserIds :
          LET rows == getUserPreferences(userPreferences, deviceId) IN
          \E existing \in IF rows = {} THEN {NoRow} ELSE {Found(r) : r \in rows} :
              patches' = [patches EXCEPT ![p] =
                             [pc |-> "read", deviceId |-> deviceId, updates |-> updates,
                              userId |-> userId, existing |-> existing]]
    /\ UNCHANGED <<userPreferences, prefLast, prefClock, selectorVars, apiVars, fetchCall, textCall, clientVars>>

\* storage.ts:190-211  the rest of updateUserPreferences
FinishPatch(p) ==
    /\ patches[p].pc = "read"
    /\ LET call == patches[p]
           updated == updatedPreferences(call.existing, call.deviceId, call.updates, call.userId,
                                         prefClock + 1)
       IN  /\ userPreferences' =
                 IF call.existing.found
                 THEN setRow(userPreferences, call.existing.row.id, updated)
                 ELSE saveUserPreferences(userPreferences, updated)
           /\ prefLast' = [op |-> "patch", deviceId |-> call.deviceId, updates |-> call.updates,
                           userId |-> call.userId, existing |-> call.existing,
                           rowsBefore |-> Cardinality(getUserPreferences(userPreferences,
                                                                         call.deviceId)),
                           row |-> IF call.existing.found
                                   THEN userPreferences'[call.existing.row.id]
                                   ELSE userPreferences'[Len(userPreferences')]]
    /\ patches' = [patches EXCEPT ![p] = NoPatch]
    /\ prefClock' = prefClock + 1
    /\ UNCHANGED <<selectorVars, apiVars, fetchCall, textCall, clientVars>>

NextPrefs ==
    \/ PostPreferences
    \/ \E p \in PatchRequests : StartPatch(p)
    \/ \E p \in PatchRequests : FinishPatch(p)

SpecPrefs == InitPrefs /\ [][NextPrefs]_vars

(***************************************************************************)
(* SpecSmart: one device whose persisted history does not change, served   *)
(* by smart selection only.                                                *)
(***************************************************************************)
HistoryRows == [deviceId : DeviceIds, word : HistoryWords]

InitSmart ==
    /\ WORD_DATABASE \in Corpora
    /\ usedWords = {}
    /\ userWordHistory \in SUBSET HistoryRows
    /\ last = NoResponse("init")
    /\ InitApiIdle /\ InitFetchIdle

NextSmart == GetSmart

SpecSmart == InitSmart /\ [][NextSmart]_vars

(***************************************************************************)
(* Claims about the frequency-corpus selector.                             *)
(***************************************************************************)
SelectionOps == {"random", "difficulty", "smart"}

\* The latest step was a selection call that reached the service.
Selected == last.op \in SelectionOps /\ last.status # 400 /\ last.failure # "storage"

\* The exclusion set at the start of the latest call.
excludedBefore == last.usedBefore \cup Range(last.seenWords)

poolTexts == textsOf(wordPool(last.difficulty))

\* C1: a selection call (random, by difficulty, smart; any tier) returns a
\* word that was in the exclusion set at its start (the seen set, united with
\* seenWords for smart selection) only if every word of its pool was excluded.
C1_NeverReturnsExcluded ==
    (Selected /\ last.word # NULL /\ last.word \in excludedBefore)
        => poolTexts \subseteq excludedBefore

\* A smart call with a non-empty history and a non-empty seen set returned a
\* word outside both, from a pool that also holds an excluded word.
C1_Witness ==
    /\ last.op = "smart" /\ last.word # NULL
    /\ last.usedBefore # {} /\ Range(last.seenWords) # {}
    /\ last.word \notin excludedBefore
    /\ poolTexts \cap excludedBefore # {}

\* C2: a selection call that finds every word of a non-empty pool excluded
\* resets exclusion and returns a word of that pool, never "no word".
C2_ExhaustedPoolStillServes ==
    (Selected /\ poolTexts # {} /\ poolTexts \subseteq excludedBefore)
        => /\ last.status = 200
           /\ last.word \in poolTexts
           /\ last.exhausted

\* The easy pool holds exactly two words, both seen, and the call by
\* difficulty returned one of them.
C2_Witness ==
    /\ last.op = "difficulty" /\ last.difficulty = "easy"
    /\ Cardinality(poolTexts) = 2 /\ poolTexts \subseteq last.usedBefore
    /\ last.word \in poolTexts

\* C3: with an empty candidate pool, getRandomWordWithDefinition and
\* getWordByDifficulty reset, retry once and return null, answered as 404.
C3_EmptyPoolReturnsNull ==
    (Selected /\ last.op \in {"random", "difficulty"} /\ poolTexts = {})
        => (last.status = 404 /\ last.word = NULL)

\* C4 as claimed: when getWordByDifficulty finds every word of tier T seen,
\* no word of another tier that was seen before the call is still seen after.
C4_ResetClearsWholeSet ==
    (Selected /\ last.op = "difficulty" /\ last.exhausted)
        => usedWords \cap (last.usedBefore \ poolTexts) = {}

\* C4 as amended: the reset of getWordByDifficulty removes the words of the
\* requested pool only; the seen set after the call is the words seen before
\* that lie outside the pool, plus the word returned.
C4_ResetIsPerPool ==
    (Selected /\ last.op = "difficulty" /\ last.exhausted)
        => usedWords = (last.usedBefore \ poolTexts)
                          \cup (IF last.word # NULL THEN {last.word} ELSE {})

\* A call for one tier found it exhausted, returned a word, and a seen word
\* of another tier is still in the seen set.
C4_Witness ==
    /\ last.op = "difficulty" /\ last.exhausted /\ last.word # NULL
    /\ last.difficulty \in {"easy", "medium", "hard"}
    /\ usedWords \cap (last.usedBefore \ poolTexts) # {}

\* C5: when smart selection finds nothing unseen it clears the process-local
\* set only, leaves the device's persisted seenWords as they were, selects
\* from the whole pool, and returns null only if the pool itself is empty.
C5_SmartDegradesToLocalReset ==
    (last.op = "smart" /\ last.exhausted)
        => /\ getSeenWords(userWordHistory, last.deviceId) = last.seenWords
           /\ (last.word = NULL) <=> (poolTexts = {})
           /\ last.word # NULL => (last.word \in poolTexts /\ usedWords = {last.word})
           /\ last.word = NULL => (last.status = 404 /\ usedWords = {})

\* A smart call found nothing unseen, with both the history and the seen set
\* contributing, and returned a word of the caller's history.
C5_Witness ==
    /\ last.op = "smart" /\ last.exhausted
    /\ last.usedBefore # {} /\ ~(poolTexts \subseteq last.usedBefore)
    /\ last.word \in Range(last.seenWords)
    /\ usedWords = {last.word}

\* C6: over smart calls with one unchanged seenWords list, a word of
\* seenWords is returned only if every word of the pool is in seenWords.
C6_SeenWordOnlyWhenAllSeen ==
    (last.op = "smart" /\ last.word # NULL /\ last.word \in Range(last.seenWords))
        => poolTexts \subseteq Range(last.seenWords)

\* C16: a request with a difficulty name outside easy, medium, hard and
\* mixed, on the by-difficulty route and on the smart route, is answered 400
\* with no word selected and the seen set left as it was.
C16_InvalidDifficultyIs400 ==
    (/\ last.op \in {"difficulty", "smart"}
     /\ last.difficulty \notin ValidDifficulties
     /\ last.failure # "storage")
        => /\ last.status = 400
           /\ last.word = NULL
           /\ usedWords = last.usedBefore

\* C17: a smart-selection request whose read of the persisted history fails
\* is not failed: it is served with the process-local seen set alone and
\* returns a word of the pool when the pool is non-empty.
C17_HistoryFailureDegrades ==
    (last.op = "smart" /\ last.failure = "storage")
        => /\ last.status # 500
           /\ poolTexts # {} => (last.status = 200 /\ last.word \in poolTexts)

\* The used count GET /api/words/enhanced/stats reports.
\* enhancedWordService.ts:155-173
getWordStats ==
    [total |-> Len(WORD_DATABASE),
     common |-> Len(WORDS_BY_DIFFICULTY.easy),
     moderate |-> Len(WORDS_BY_DIFFICULTY.medium),
     expert |-> Len(WORDS_BY_DIFFICULTY.hard),
     used |-> Cardinality(usedWords)]

\* The words the next call of each selection operation may return.
eligibleWords(difficulty) ==
    {out.word : out \in getWordByDifficulty(usedWords, difficulty, 0)}

\* C18: a step that serves a reset request leaves the seen set empty and the
\* reported used count 0, makes every word of the corpus and of each tier
\* pool eligible for the next selection, and changes neither the corpus nor
\* the tier pools.
C18_ResetClearsSeenSetOnly ==
    [][last'.op = "reset"
          => /\ usedWords' = {}
             /\ getWordStats'.used = 0
             /\ WORD_DATABASE' = WORD_DATABASE
             /\ WORDS_BY_DIFFICULTY' = WORDS_BY_DIFFICULTY
             /\ \A difficulty \in ValidDifficulties :
                   textsOf(wordPool(difficulty)') # {}
                       => eligibleWords(difficulty)' = textsOf(wordPool(difficulty)')
             /\ WORD_DATABASE' # <<>>
                   => {out.word : out \in getRandomWordWithDefinition(usedWords, 0)'}
                         = textsOf(WORD_DATABASE')]_vars

\* A reset was served with every word of a three-word corpus in the seen set.
C18_Witness ==
    /\ last.op = "reset"
    /\ Len(WORD_DATABASE) = 3
    /\ last.usedBefore = textsOf(WORD_DATABASE)
    /\ usedWords = {}

\* The tier of a frequency rank as C14 states it.
tierOfRank(rank) ==
    IF rank \in 1..2000 THEN "easy"
    ELSE IF rank \in 2001..10000 THEN "medium"
    ELSE "hard"

\* The frequency_rank of the corpus entry of a word.
rankOf(word) == (CHOOSE e \in Range(WORD_DATABASE) : e.word = word).frequency_rank

C19_RangeIsExactlyTheMatchingEntries ==
    last.op = "frequencyRange"
        => LET matching == {e \in Range(WORD_DATABASE) :
                               last.minRank <= e.frequency_rank /\ e.frequency_rank <= last.maxRank} IN
           /\ {w.word : w \in Range(last.words)} = {e.word : e \in matching}
           /\ Len(last.words) = Cardinality(matching)
           /\ usedWords = last.usedBefore
           /\ last.minRank > last.maxRank => last.words = <<>>

\* With a word in the seen set, a query returned one of two entries: the
\* one whose rank equals maxRank, and not the one whose rank is maxRank + 1.
C19_Witness ==
    /\ last.op = "frequencyRange" /\ last.usedBefore # {}
    /\ Len(WORD_DATABASE) = 2 /\ Len(last.words) = 1
    /\ rankOf(last.words[1].word) = last.maxRank
    /\ \E e \in Range(WORD_DATABASE) : e.frequency_rank = last.maxRank + 1

\* C20 as claimed: word history is append-only: a record, once created, is
\* in the table in every later state, so its word stays in
\* getSeenWords(device).
C20_HistoryIsAppendOnly ==
    [][\A r \in userWordHistory :
          /\ r \in userWordHistory'
          /\ r.word \in Range(getSeenWords(userWordHistory', r.deviceId))]_vars

\* C20 as amended: no operation changes a record, and the only operation
\* that removes records is clearWordHistory (DELETE
\* /api/word-history/:deviceId), which removes every record of its device
\* and none of another device; through every other step each recorded word
\* stays in getSeenWords(device).
C20_HistoryRemovedOnlyByClear ==
    [][/\ last'.op # "clearWordHistory"
           => \A r \in userWordHistory :
                 /\ r \in userWordHistory'
                 /\ r.word \in Range(getSeenWords(userWordHistory', r.deviceId))
       /\ last'.op = "clearWordHistory"
           => /\ userWordHistory' = {r \in userWordHistory : r.deviceId # last'.deviceId}
              /\ getSeenWords(userWordHistory', last'.deviceId) = <<>>]_vars

\* A device's history of two words was cleared while the records of the
\* other device stayed.
C20_Witness ==
    /\ last.op = "clearWordHistory"
    /\ Len(last.seenWords) = 2
    /\ userWordHistory # {}
    /\ \A r \in userWordHistory : r.deviceId # last.deviceId

(***************************************************************************)
(* Claims about the API-backed selector.                                   *)
(***************************************************************************)
Completed == wsLast.kind # "none"

FallbackTexts == {fallbackWords[i].word : i \in 1..Len(fallbackWords)}

dynamicTexts == Range(DYNAMIC_WORD_POOLS.animals \o DYNAMIC_WORD_POOLS.instruments)

AllTiers == <<"curated", "dynamic", "dictionary">>

\* C7: WordService.getRandomWordWithDefinition returns a Word on every
\* call, never null and never an error, whatever the used set and whatever
\* the lookup came to.
C7_AlwaysReturnsWord ==
    Completed => /\ wsLast.kind = "word"
                 /\ wsLast.word # NULL
                 /\ wsLast.definition.tag = "some"

\* With every curated and dynamic word used, the lookup of a generic word
\* met a network failure and the call still returned a word.
C7_Witness ==
    /\ wsLast.kind = "word" /\ wsLast.response = "networkError"
    /\ wsLast.consulted = AllTiers

\* C8 as claimed: a failed lookup for a curated candidate makes the call
\* move on to the dynamic pools and then the generic list, and a hardcoded
\* fallback word is returned only after every tier has been tried.
C8_FallbackOnlyAfterEveryTier ==
    Completed =>
        /\ (wsLast.lookup # "some" /\ wsLast.wordToTry \in Range(CURATED_WORDS))
               => "dynamic" \in Range(wsLast.consulted)
        /\ wsLast.source = "fallback" => wsLast.consulted = AllTiers

\* C8 as amended: a failed lookup, for a candidate of whichever tier, ends
\* the call with a hardcoded fallback word at once, with no other tier
\* tried; the tiers are consulted in order only to choose the one candidate,
\* which comes from the last tier consulted.
C8_FailedLookupGoesStraightToFallback ==
    Completed =>
        /\ (wsLast.source = "fallback") <=> (wsLast.lookup # "some")
        /\ wsLast.source = "api" => wsLast.word = wsLast.wordToTry
        /\ \E n \in 1..3 : wsLast.consulted = SubSeq(AllTiers, 1, n)
        /\ wsLast.consulted = <<"curated">> => wsLast.wordToTry \in Range(CURATED_WORDS)
        /\ wsLast.consulted = <<"curated", "dynamic">> => wsLast.wordToTry \in dynamicTexts
        /\ wsLast.consulted = AllTiers => wsLast.wordToTry \in Range(randomWords)

\* The lookup failed for a candidate drawn from the curated list, no other
\* tier was consulted, and a hardcoded fallback word was returned.
C8_Witness ==
    /\ Completed /\ wsLast.lookup = "null"
    /\ wsLast.consulted = <<"curated">>
    /\ wsLast.source = "fallback"

\* C9 as claimed: after a failed lookup the call returns a word different
\* from the failed candidate, and no error.
C9_FailedLookupReturnsDifferentWord ==
    (Completed /\ wsLast.lookup # "some")
        => (wsLast.kind = "word" /\ wsLast.word # wsLast.wordToTry)

\* C9 as amended: after a failed lookup the call returns, without error, one
\* of the three hardcoded fallback words with its inline definition; it
\* differs from the failed candidate unless the candidate is itself one of
\* those three words.
C9_FailedLookupReturnsFallbackWord ==
    (Completed /\ wsLast.lookup # "some")
        => /\ wsLast.kind = "word"
           /\ \E i \in 1..Len(fallbackWords) :
                 /\ wsLast.word = fallbackWords[i].word
                 /\ wsLast.definition = Some(fallbackWords[i].definition)
           /\ wsLast.wordToTry \notin FallbackTexts => wsLast.word # wsLast.wordToTry

\* The lookup for HOUSE met a non-success status and SERENDIPITY came back.
C9_Witness ==
    /\ wsLast.response = "http" /\ wsLast.lookup = "null"
    /\ wsLast.wordToTry = "HOUSE"
    /\ wsLast.kind = "word" /\ wsLast.word = "SERENDIPITY"

\* C11: every Word the API-backed path returns, with a looked-up definition
\* or as a hardcoded fallback word, has a definition of 20 to 200 characters.
C11_DefinitionLengthWithinBand ==
    (Completed /\ wsLast.kind = "word")
        => /\ wsLast.definition.tag = "some"
           /\ Len(wsLast.definition.value) \in 20..200

\* A looked-up definition of 199 characters was returned.
C11_Witness ==
    /\ wsLast.kind = "word" /\ wsLast.source = "api"
    /\ Len(wsLast.definition.value) = 199

(***************************************************************************)
(* Claims about the definition lookup.                                     *)
(***************************************************************************)
\* A response that parsed, holds a first entry with meanings, and whose
\* meanings each carry a definitions array led (if at all) by a definition
\* with a text.
WellFormed(response) ==
    /\ response.kind = "json"
    /\ Len(response.data) > 0
    /\ response.data[1].hasMeanings
    /\ Len(response.data[1].meanings) > 0
    /\ \A i \in 1..Len(response.data[1].meanings) :
          LET meaning == response.data[1].meanings[i] IN
          /\ meaning.hasDefinitions
          /\ Len(meaning.definitions) > 0 => meaning.definitions[1].hasText

\* The candidate definitions of a response: the first definition of each
\* meaning of its first entry, in order.
CandidateDefinitions(response) ==
    LET withOne == SelectSeq(response.data[1].meanings,
                             LAMBDA meaning : Len(meaning.definitions) > 0)
    IN  [i \in 1..Len(withOne) |-> withOne[i].definitions[1].text]

LowerCaseLetters == {"a", "b"}

\* C12: cleaning is idempotent: cleanDefinition applied to its own result
\* gives that result again, for every input string.
C12_CleaningIsIdempotent ==
    (textCall.kind = "clean" /\ textCall.calls = 2)
        => textCall.recleaned = textCall.cleaned

\* C13: the cleaned result of every input holds no parenthetical aside (an
\* opening parenthesis with a closing one after it), holds no run of two or
\* more whitespace characters, does not begin with a lower-case letter, and
\* ends with exactly one period.
C13_CleanedIsNormalised ==
    (textCall.kind = "clean" /\ textCall.calls >= 1)
        => LET c == textCall.cleaned
               n == Len(textCall.cleaned) IN
           /\ ~ \E i \in 1..n, j \in 1..n : i < j /\ c[i] = "(" /\ c[j] = ")"
           /\ ~ \E i \in 1..(n - 1) : c[i] \in Whitespace /\ c[i + 1] \in Whitespace
           /\ n > 0 /\ c[1] \notin LowerCaseLetters
           /\ c[n] = "." /\ (n > 1 => c[n - 1] # ".")

\* C15: categorizeWordDifficulty answers easy exactly for a word of at most
\* 5 characters or one whose upper-case form is in the common-word list,
\* medium exactly for a word that is not easy and has at most 8 characters,
\* and hard for every other word.
C15_ClassifierBuckets ==
    (textCall.kind = "classify" /\ textCall.calls = 1)
        => LET length == Len(textCall.word)
               easy == length <= 5 \/ \E c \in commonWords : c = toUpperCase(textCall.word) IN
           /\ (textCall.difficulty = "easy") <=> easy
           /\ (textCall.difficulty = "medium") <=> (~easy /\ length <= 8)
           /\ (textCall.difficulty = "hard") <=> (~easy /\ length > 8)

\* A word of exactly 8 characters was classified medium.
C15_Witness ==
    /\ textCall.kind = "classify" /\ textCall.calls = 1
    /\ Len(textCall.word) = 8 /\ textCall.difficulty = "medium"

(***************************************************************************)
(* Claims about user preferences.                                          *)
(***************************************************************************)
PrefFields ==
    {"preferredDifficulty", "soundEnabled", "hintsEnabled", "dailyWordGoal", "vocabulary_level"}

\* C21: after any sequence of POST and PATCH writes there is at most one
\* preferences row per device id, and a write creates a row only for a
\* device that has none.
C21_OneRowPerDevice ==
    /\ \A d \in PrefDevices : Cardinality(getUserPreferences(userPreferences, d)) <= 1
    /\ (prefLast.op # "none" /\ ~prefLast.existing.found) => prefLast.rowsBefore = 0

\* C28: updateUserPreferences on a device that has a row stores each field
\* of the updates object as supplied (0 included) and leaves every other
\* field of the row, userId and createdAt included, as it was; only
\* updatedAt changes besides.
C28_UpdateChangesOnlySuppliedFields ==
    (prefLast.op = "patch" /\ prefLast.existing.found)
        => /\ \A f \in PrefFields :
                 prefLast.row[f] = IF Has(prefLast.updates, f) THEN prefLast.updates[f]
                                   ELSE prefLast.existing.row[f]
           /\ prefLast.row.id = prefLast.existing.row.id
           /\ prefLast.row.deviceId = prefLast.existing.row.deviceId
           /\ prefLast.row.userId = prefLast.existing.row.userId
           /\ prefLast.row.createdAt = prefLast.existing.row.createdAt

\* A selection call of the API-backed selector has just chosen its candidate,
\* or has just returned.
Started(r) == requests[r].pc = "idle" /\ requests'[r].pc = "fetch"

Finished(r) == requests[r].pc = "fetch" /\ requests'[r].pc = "idle"

AllListWords == Range(CURATED_WORDS) \cup dynamicTexts \cup Range(randomWords)

\* C22: two selection calls of the API-backed selector that overlap in time
\* can both be given the same word between resets: a call reads its
\* candidate outside the seen set before its lookup suspends and marks it
\* only when the lookup has returned.  A call whose candidate was marked
\* meanwhile returns it all the same, without error, and the seen set,
\* holding the word once already, stays as it is.
C22_OverlapGivesSameWordSilently ==
    [][\A r \in Requests :
          /\ Started(r) => /\ requests'[r].wordToTry \notin wsUsedWords'
                           /\ wsUsedWords' \subseteq wsUsedWords
          /\ (Finished(r) /\ wsLast'.lookup = "some")
                => /\ wsLast'.kind = "word" /\ wsLast'.word = requests[r].wordToTry
                   /\ wsLast'.markedMeanwhile = (wsLast'.word \in wsUsedWords)
                   /\ wsUsedWords' = wsUsedWords \cup {wsLast'.word}
                   /\ Cardinality(wsUsedWords')
                         = Cardinality(wsUsedWords) + (IF wsLast'.markedMeanwhile THEN 0 ELSE 1)]_vars

\* Both calls are idle, and the latest one returned, with its looked-up
\* definition, a word that was outside the seen set when it read it and that
\* the other call returned and marked while its lookup was pending.
C22_Witness ==
    /\ wsLast.kind = "word" /\ wsLast.source = "api"
    /\ wsLast.markedMeanwhile /\ ~wsLast.cleared
    /\ wsLast.word \in wsUsedWords
    /\ \A r \in Requests : requests[r].pc = "idle"

\* C23 as claimed: a word returned by getRandomWordWithDefinition, from
\* whichever list, is in usedWords when the call returns.
C23_ReturnedWordIsUsed ==
    [][\A r \in Requests :
          (Finished(r) /\ wsLast'.kind = "word") => wsLast'.word \in wsUsedWords']_vars

\* C27: a selection call of the API-backed selector clears usedWords only
\* when every word of the curated list, of the dynamic pools and of the
\* generic list is in it; otherwise choosing the candidate leaves the set
\* unchanged, and returning either adds exactly the returned word or leaves
\* the set unchanged.
C27_ClearsOnlyWhenExhausted ==
    [][\A r \in Requests :
          /\ Started(r) => \/ wsUsedWords' = wsUsedWords
                           \/ /\ AllListWords \subseteq wsUsedWords
                              /\ wsUsedWords' = {}
          /\ Finished(r) => \/ wsUsedWords' = wsUsedWords
                            \/ wsUsedWords' = wsUsedWords \cup {wsLast'.word}]_vars

\* A call found every list exhausted, cleared the set and returned a
\* generic word with its looked-up definition.
C27_Witness ==
    /\ wsLast.cleared /\ wsLast.kind = "word" /\ wsLast.source = "api"
    /\ wsLast.word \in Range(randomWords)
    /\ wsLast.consulted = AllTiers

Tiers == {"easy", "medium", "hard"}

\* C24: a Word returned by getWordByDifficulty(T) or by
\* getSmartWordSelection(_, T), for a tier T of easy, medium and hard, has
\* difficulty T, directly after an exhaustion reset as in every other state.
C24_ReturnedWordHasRequestedTier ==
    (Selected /\ last.op \in {"difficulty", "smart"} /\ last.difficulty \in Tiers
        /\ last.word # NULL)
        => /\ last.wordDifficulty = last.difficulty
           /\ last.word \in textsOf(wordPool(last.difficulty))

\* A call for tier hard found every hard word seen, reset the tier and
\* returned a hard word, with a word of another tier in the corpus.
C24_Witness ==
    /\ last.op = "difficulty" /\ last.difficulty = "hard"
    /\ last.exhausted /\ last.word # NULL
    /\ textsOf(WORD_DATABASE) # textsOf(wordPool("hard"))

\* C25: each selection call of the frequency-corpus selector filters, picks
\* and marks in one step, so over every interleaving of requests no word is
\* given twice without a reset in between: a call that performs no
\* exhaustion reset returns a word outside the seen set and adds it, and a
\* word leaves the seen set only in a step that is an exhaustion reset or an
\* explicit reset.
C25_NoWordTwiceBetweenResets ==
    [][/\ (last'.op \in SelectionOps /\ last'.word # NULL /\ ~last'.exhausted)
            => (last'.word \notin usedWords /\ usedWords' = usedWords \cup {last'.word})
       /\ ~(usedWords \subseteq usedWords')
            => (last'.op = "reset" \/ (last'.op \in SelectionOps /\ last'.exhausted))]_vars

\* Two calls in a row returned two different words with no reset in
\* between, and the seen set holds both.
C25_Witness ==
    /\ Selected /\ last.word # NULL /\ ~last.exhausted
    /\ last.usedBefore # {}
    /\ last.word \notin last.usedBefore
    /\ usedWords = last.usedBefore \cup {last.word}

\* C26: the seen set holds words of the corpus only, so the used count is at
\* most the total; each tier pool holds at most the slice limit of entries
\* and the three tier counts add up to at most the total; a selection call
\* that returns a word leaves it in the seen set.
C26_StatsAreConsistent ==
    /\ usedWords \subseteq textsOf(WORD_DATABASE)
    /\ getWordStats.used <= getWordStats.total
    /\ \A t \in Tiers : Len(wordPool(t)) <= SliceCap
    /\ getWordStats.common + getWordStats.moderate + getWordStats.expert <= getWordStats.total
    /\ (Selected /\ last.word # NULL) => last.word \in usedWords

\* The corpus holds more common words than the slice keeps, every word of
\* the corpus is seen, and the latest call returned the last of them.
C26_Witness ==
    /\ Len(ofDifficulty(WORD_DATABASE, "common")) > SliceCap
    /\ getWordStats.common = SliceCap
    /\ Selected /\ last.word # NULL /\ ~last.exhausted
    /\ usedWords = textsOf(WORD_DATABASE)
    /\ getWordStats.used = getWordStats.total

(***************************************************************************)
(* SpecDevice: the calls of DeviceIdManager over the visits of one         *)
(* browser, first-time or returning.                                       *)
(***************************************************************************)
InitServerIdle ==
    /\ InitSelectorIdle /\ InitApiIdle /\ InitPrefsIdle
    /\ fetchCall = [word |-> NULL, response |-> NULL, result |-> Null, done |-> FALSE]
    /\ textCall = NoTextCall

InitDevice ==
    /\ InitServerIdle
    /\ \E stored \in {NoId, 1} :
          /\ deviceIdManager = [deviceId |-> NoId, stored |-> stored, generated |-> stored]
          /\ visit = [NoVisit EXCEPT !.id = stored, !.existedBefore = (stored # NoId)]
    /\ timedChallenge = Setup
    /\ round = NoRound

\* The page is loaded: the static field starts as null, localStorage stays.
OpenPage ==
    /\ deviceIdManager' = [deviceIdManager EXCEPT !.deviceId = NoId]
    /\ visit' = [visit EXCEPT !.op = "open", !.existedBefore = isReturningUser(deviceIdManager)]
    /\ UNCHANGED <<selectorVars, apiVars, fetchCall, textCall, prefVars, timedChallenge, round>>

\* routes.ts:354-370  DeviceIdManager.getDeviceId()
GetDeviceId ==
    LET call == getDeviceId(deviceIdManager) IN
    /\ call.manager.generated <= MaxDeviceIds
    /\ deviceIdManager' = call.manager
    /\ visit' = [visit EXCEPT !.op = "getDeviceId", !.id = call.id, !.previousId = visit.id]
    /\ UNCHANGED <<selectorVars, apiVars, fetchCall, textCall, prefVars, timedChallenge, round>>

\* routes.ts:417-421  DeviceIdManager.resetDeviceId()
ResetDeviceId ==
    LET call == resetDeviceId(deviceIdManager) IN
    /\ call.manager.generated <= MaxDeviceIds
    /\ deviceIdManager' = call.manager
    /\ visit' = [visit EXCEPT !.op = "resetDeviceId", !.id = call.id, !.previousId = NoId]
    /\ UNCHANGED <<selectorVars, apiVars, fetchCall, textCall, prefVars, timedChallenge, round>>

\* routes.ts:426-428  DeviceIdManager.isReturningUser()
IsReturningUser ==
    /\ visit' = [visit EXCEPT !.op = "isReturningUser",
                              !.isReturningUser = isReturningUser(deviceIdManager)]
    /\ UNCHANGED <<selectorVars, apiVars, fetchCall, textCall, prefVars, deviceIdManager,
                   timedChallenge, round>>

\* part_002:10-12 and 92-107  a render of usePersonalWordHistory: line 12
\* calls getDeviceId, line 106 calls isReturningUser.
UsePersonalWordHistory ==
    LET call == getDeviceId(deviceIdManager) IN
    /\ call.manager.generated <= MaxDeviceIds
    /\ deviceIdManager' = call.manager
    /\ visit' = [visit EXCEPT !.op = "usePersonalWordHistory", !.id = call.id,
                              !.previousId = visit.id,
                              !.isReturningUser = isReturningUser(call.manager)]
    /\ UNCHANGED <<selectorVars, apiVars, fetchCall, textCall, prefVars, timedChallenge, round>>

\* part_002:111-112  a render of useUserPreferences
UseUserPreferences ==
    LET call == getDeviceId(deviceIdManager) IN
    /\ call.manager.generated <= MaxDeviceIds
    /\ deviceIdManager' = call.manager
    /\ visit' = [visit EXCEPT !.op = "useUserPreferences", !.id = call.id,
                              !.previousId = visit.id]
    /\ UNCHANGED <<selectorVars, apiVars, fetchCall, textCall, prefVars, timedChallenge, round>>

NextDevice ==
    \/ OpenPage
    \/ GetDeviceId
    \/ ResetDeviceId
    \/ IsReturningUser
    \/ UsePersonalWordHistory
    \/ UseUserPreferences

SpecDevice == InitDevice /\ [][NextDevice]_vars

(***************************************************************************)
(* SpecTimed: sessions of the timed challenge.                             *)
(***************************************************************************)
InitTimed == InitSelectorIdle /\ InitApiIdle /\ InitFetchIdle

\* No load of a word is under way.  The player of the model waits for the
\* word asked for before skipping, guessing right or starting again.
settled(tc) == tc.timers = 0 /\ tc.fetches = 0

\* The round goes on: what the latest scoring recorded is dropped.
Ongoing(hints) == [NoRound EXCEPT !.op = "other", !.hints = hints]

\* part_004:596-613  startGame, up to the await of fetchNewWord in
\* loadNextWord.
StartGame ==
    /\ timedChallenge.gameState = "setup"
    /\ settled(timedChallenge)
    /\ timedChallenge' = [timedChallenge EXCEPT
            !.gameState = "playing", !.score = 0, !.correctGuesses = 0, !.totalWords = 0,
            !.hintsUsed = 0, !.timeRemaining = timeLimit,
            !.revealedIndices = {}, !.fetches = @ + 1]
    /\ round' = Ongoing(0)
    /\ UNCHANGED <<selectorVars, apiVars, fetchCall, textCall, prefVars, deviceIdManager, visit>>

\* part_004:957  Play Again
PlayAgain ==
    /\ timedChallenge.gameState = "finished"
    /\ timedChallenge' = [timedChallenge EXCEPT !.gameState = "setup"]
    /\ round' = Ongoing(round.hints)
    /\ UNCHANGED <<selectorVars, apiVars, fetchCall, textCall, prefVars, deviceIdManager, visit>>

\* part_004:585-590  the timeout of the timer effect
Tick ==
    /\ timedChallenge.gameState = "playing" /\ timedChallenge.timeRemaining > 0
    /\ timedChallenge' = [timedChallenge EXCEPT !.timeRemaining = @ - 1]
    /\ round' = Ongoing(round.hints)
    /\ UNCHANGED <<selectorVars, apiVars, fetchCall, textCall, prefVars, deviceIdManager, visit>>

\* part_004:591-593 and 691-708  finishGame
FinishGame ==
    /\ timedChallenge.gameState = "playing" /\ timedChallenge.timeRemaining = 0
    /\ timedChallenge' = [timedChallenge EXCEPT !.gameState = "finished"]
    /\ round' = Ongoing(round.hints)
    /\ UNCHANGED <<selectorVars, apiVars, fetchCall, textCall, prefVars, deviceIdManager, visit>>

\* part_004:615-620  loadNextWord, called by the timeout of line 679, up to
\* the await of fetchNewWord
LoadNextWord ==
    /\ timedChallenge.timers > 0
    /\ timedChallenge' = [timedChallenge EXCEPT
            !.timers = @ - 1, !.revealedIndices = {}, !.fetches = @ + 1]
    /\ round' = Ongoing(0)
    /\ UNCHANGED <<selectorVars, apiVars, fetchCall, textCall, prefVars, deviceIdManager, visit>>

\* part_004:1043 and 615-620  Skip Word: loadNextWord, called by the button,
\* up to the await of fetchNewWord
SkipWord ==
    /\ timedChallenge.currentWord # NoWord /\ timedChallenge.gameState = "playing"
    /\ settled(timedChallenge) /\ timedChallenge.totalWords <= MaxRounds
    /\ timedChallenge' = [timedChallenge EXCEPT !.revealedIndices = {}, !.fetches = @ + 1]
    /\ round' = Ongoing(0)
    /\ UNCHANGED <<selectorVars, apiVars, fetchCall, textCall, prefVars, deviceIdManager, visit>>

\* part_004:620-624  loadNextWord once fetchNewWord has settled, with a word
\* or without data
WordArrives ==
    /\ timedChallenge.fetches > 0
    /\ \E data \in ChallengeWords \cup {NoWord} :
          timedChallenge' =
              IF data # NoWord
              THEN [timedChallenge EXCEPT !.fetches = @ - 1, !.currentWord = data,
                                          !.totalWords = @ + 1]
              ELSE [timedChallenge EXCEPT !.fetches = @ - 1]
    /\ round' = Ongoing(round.hints)
    /\ UNCHANGED <<selectorVars, apiVars, fetchCall, textCall, prefVars, deviceIdManager, visit>>

\* part_004:627-645  revealLetter
RevealLetter ==
    /\ timedChallenge.currentWord # NoWord /\ timedChallenge.gameState = "playing"
    /\ timedChallenge.hintsUsed < MaxHints
    /\ LET unrevealed == letters(timedChallenge.currentWord.word)
                              \ timedChallenge.revealedIndices IN
       \E randomIndex \in unrevealed :
          timedChallenge' = [timedChallenge EXCEPT
              !.revealedIndices = @ \cup {randomIndex}, !.hintsUsed = @ + 1]
    /\ round' = Ongoing(round.hints + 1)
    /\ UNCHANGED <<selectorVars, apiVars, fetchCall, textCall, prefVars, deviceIdManager, visit>>

\* part_004:647-689  checkGuess with a guess that is not blank; the input is
\* on screen while the game is playing.
CheckGuess ==
    /\ timedChallenge.currentWord # NoWord /\ timedChallenge.gameState = "playing"
    /\ \E correct \in BOOLEAN :
          IF correct
          THEN LET points == roundScore(timedChallenge.currentWord.difficulty,
                                        timedChallenge.timeRemaining,
                                        timedChallenge.hintsUsed) IN
               /\ settled(timedChallenge) /\ timedChallenge.correctGuesses < MaxRounds
               /\ timedChallenge' = [timedChallenge EXCEPT
                      !.score = @ + points, !.correctGuesses = @ + 1,
                      !.revealedIndices = letters(timedChallenge.currentWord.word),
                      !.timers = @ + 1]
               /\ round' = [op |-> "correct", hints |-> round.hints, roundScore |-> points,
                            scoreBefore |-> timedChallenge.score,
                            timeRemaining |-> timedChallenge.timeRemaining,
                            difficulty |-> timedChallenge.currentWord.difficulty]
          ELSE /\ round' = Ongoing(round.hints)
               /\ UNCHANGED timedChallenge
    /\ UNCHANGED <<selectorVars, apiVars, fetchCall, textCall, prefVars, deviceIdManager, visit>>

NextTimed ==
    \/ StartGame
    \/ PlayAgain
    \/ Tick
    \/ FinishGame
    \/ LoadNextWord
    \/ SkipWord
    \/ WordArrives
    \/ RevealLetter
    \/ CheckGuess

SpecTimed == InitTimed /\ [][NextTimed]_vars

(***************************************************************************)
(* Claims about the client.                                                *)
(***************************************************************************)
\* C29: getDeviceId returns the same id on every call until resetDeviceId
\* is called, and the isReturningUser that DeviceIdManager and
\* usePersonalWordHistory report is true exactly when an id was stored
\* before the current visit.
C29_ReturningOnlyWithEarlierId ==
    /\ (visit.op \in {"getDeviceId", "usePersonalWordHistory", "useUserPreferences"}
            /\ visit.previousId # NoId)
          => visit.id = visit.previousId
    /\ visit.op \in {"isReturningUser", "usePersonalWordHistory"}
          => (visit.isReturningUser = visit.existedBefore)

\* C30: the score added for a correct guess is
\* max(base + floor(timeRemaining / 10) - 5 * h, 10), h counting the hints of
\* the current round only, and the session score does not decrease.
C30_ScoreCountsHintsOfTheRound ==
    round.op = "correct"
        => /\ round.roundScore
                 = Max(getWordPoints(IF round.difficulty = NULL THEN "medium" ELSE round.difficulty)
                           + (round.timeRemaining \div 10) - 5 * round.hints, 10)
           /\ timedChallenge.score = round.scoreBefore + round.roundScore
           /\ timedChallenge.score >= round.scoreBefore

====
